---- MODULE Spec2Model ----
(***************************************************************************)
(* Model of shell/platform/common/cpp/client_wrapper/plugin_registrar.cc:  *)
(* the binary messenger (channel -> handler map and the host callback      *)
(* registrations), the dispatch adaptor ForwardToHandler and the one-shot  *)
(* reply closure it builds for every inbound message.                      *)
(*                                                                         *)
(* The host transport (FlutterDesktopMessengerRef) is the environment: it  *)
(* keeps, per channel name (a C string, as channel.c_str() hands it over), *)
(* the callback and the user_data pointer given to                         *)
(* FlutterDesktopMessengerSetCallback, delivers inbound messages to that   *)
(* callback, and records every FlutterDesktopMessengerSendResponse call.   *)
(* Handlers are plugin code: once invoked they may call the reply closure  *)
(* any number of times, copy it, keep it past their return, and call       *)
(* SetMessageHandler.                                                      *)
(*                                                                         *)
(* Spec takes SetMessageHandler as one step, on every channel name.        *)
(* SpecReplies is Spec on one channel and SpecTwoChannels the living       *)
(* messenger on two, both with names that hold no NUL.  SpecSteps takes    *)
(* SetMessageHandler statement by statement (map update, then host call)   *)
(* with the host delivering in between; SpecSend adds                      *)
(* BinaryMessengerImpl::Send to the living messenger; SpecTextures is      *)
(* TextureRegistrarImpl over the host's texture registrar, which shares no *)
(* state with the messenger.                                               *)
(***************************************************************************)
EXTENDS Integers, Sequences, FiniteSets, TLC

\* ---------------------------------------------------------------- bounds
MaxMsgs == 2           \* inbound messages the host delivers in one run
MaxClosures == 2       \* reply closures (originals and copies) in one run
MaxReplies == 2        \* invocations of reply closures in one run

\* ---------------------------------------------------------------- values
\* Channel names are std::string values: sequences of chars that may hold
\* the NUL char anywhere.
Nul == 0
ChannelA == <<97>>                \* "a"
ChannelANulB == <<97, 0, 98>>     \* std::string("a\0b", 3)
ChannelB == <<98>>                \* "b"
Channels == {ChannelA, ChannelANulB, ChannelB}
Handlers == {"h1", "h2"}          \* non-empty BinaryMessageHandler targets
EmptyHandler == "empty"           \* an empty std::function (operator bool false)
NoEntry == "absent"               \* key not present in handlers_
MessengerRefs == {"M1"}           \* FlutterDesktopMessengerRef values
Addrs == 1 .. Cardinality(Channels)   \* one address per node the map can hold
Null == 0                         \* nullptr (pointer, handle or callback context)
Adaptor == "ForwardToHandler"     \* the function pointer registered with the host
NoCallback == "nullptr"
Handles == 0 .. MaxMsgs           \* response handles: Null, or one per message

Payloads == {<<>>, <<7, 9>>}      \* byte buffers of messages and replies

\* channel.c_str() as the host reads it (l.86, l.94, l.102): the chars up to
\* the first NUL.
RECURSIVE CStr(_)
CStr(channel) ==
  IF channel = <<>> \/ Head(channel) = Nul THEN <<>>
  ELSE <<Head(channel)>> \o CStr(Tail(channel))

\* The channel names the host can be given.
HostChannels == {CStr(c) : c \in Channels}

Textures == {"t1", "t2"}          \* Texture objects of the plugin
NoTexture == "none"
TextureIds == {0, 1}              \* ids the host assigns to registrations
InvalidTextureId == -1            \* the host's id for a registration it rejects
Sizes == {1, 2}                   \* widths and heights of pixel-fetch requests

VARIABLES
  alive,          \* the PluginRegistrar and its BinaryMessengerImpl exist
  messenger_,     \* BinaryMessengerImpl::messenger_
  handlers_,      \* BinaryMessengerImpl::handlers_ : channel -> handler or NoEntry
  node,           \* address of the map node holding handlers_[c] (Null if absent)
  heap,           \* address -> the std::function object living there, or Freed
  hostCb,         \* host side: C-string channel name -> [callback, user_data]
  msgs,           \* inbound messages delivered so far (index = message id):
                  \* response handle and transport of each
  closures,       \* per message, its reply closure objects (original first)
  invocations,    \* handler invocations made by ForwardToHandler, by message
  returned,       \* the last handler invocation that returned
  responseCount,  \* per handle, the FlutterDesktopMessengerSendResponse calls
  lastResponse,   \* the most recent FlutterDesktopMessengerSendResponse call
  running,        \* Idle, or the handler invocation in progress
  crashed,        \* the process hit undefined behaviour and faulted
  pending,        \* the SetMessageHandler call that has updated handlers_ and
                  \* not yet made its FlutterDesktopMessengerSetCallback call
  outbox,         \* the FlutterDesktopMessengerSend calls of the latest Send
  textures,       \* host side: texture id -> the user_data registered with it
  lastRegister,   \* the latest RegisterTexture call and the id it returned
  lastFetch,      \* the latest pixel-fetch request of the host and the
                  \* CopyPixelBuffer calls it led to
  retired         \* the (id, texture) pairs UnregisterTexture has returned for

textureVars == <<textures, lastRegister, lastFetch, retired>>

messengerVars ==
  <<alive, messenger_, handlers_, node, heap, hostCb, msgs, closures,
    invocations, returned, responseCount, lastResponse, running, crashed,
    pending, outbox>>

vars == <<messengerVars, textureVars>>

Freed == "freed"

\* No handler invocation in progress.
Idle ==
  [msg |-> Null, channel |-> <<>>, handler |-> EmptyHandler,
   message |-> <<>>, message_size |-> 0, user_data |-> Null,
   destroyed |-> FALSE]

\* No handler invocation has returned yet.
NoneReturned == [channel |-> <<>>, handler |-> EmptyHandler]

\* No send_response call made yet.
NoResponse ==
  [messenger |-> "none", handle |-> Null, reply |-> <<>>, reply_size |-> 0]

\* No SetMessageHandler call is between its map update and its host call.
NoPending ==
  [active |-> FALSE, channel |-> <<>>, handler |-> EmptyHandler,
   message_handler |-> Null]

\* The host holds no registration under a texture id.
Unregistered == [user_data |-> NoTexture, frame |-> FALSE]

\* No RegisterTexture call made yet.
NoRegister == [texture |-> NoTexture, texture_id |-> 0]

\* No pixel-fetch request made yet.
NoFetch == [texture_id |-> 0, copies |-> <<>>]

\* ------------------------------------------------ the reply closure (l.27-41)
\* The closure object built at line 27: captures messenger and response_handle
\* by value.  calls/sends/diags count what this object has done.
\* Variant: every closure is bound to the handle of the first message.
NewReplyHandlerShared(messenger, response_handle) ==
  [messenger |-> messenger,
   response_handle |-> IF response_handle = Null THEN Null ELSE 1,
   calls |-> 0, sends |-> 0, diags |-> 0]

\* The closure built for one message (l.26-27).
NewReplyHandler(messenger, response_handle) ==
  [messenger |-> messenger, response_handle |-> response_handle,
   calls |-> 0, sends |-> 0, diags |-> 0]

\* Variant: the null check of line 30 is missing.
ReplySendsUnchecked(cl, reply, reply_size) ==
  <<[messenger |-> cl.messenger, handle |-> cl.response_handle,
     reply |-> reply, reply_size |-> reply_size]>>

\* Variant: the reply is sent with the size dropped.
ReplySendsNoSize(cl, reply, reply_size) ==
  IF cl.response_handle = Null
  THEN <<>>
  ELSE <<[messenger |-> cl.messenger, handle |-> cl.response_handle,
          reply |-> reply, reply_size |-> 0]>>

\* Body of the closure, lines 30-37: the host calls it makes.
ReplySends(cl, reply, reply_size) ==
  IF cl.response_handle = Null
  THEN <<>>
  ELSE <<[messenger |-> cl.messenger, handle |-> cl.response_handle,
          reply |-> reply, reply_size |-> reply_size]>>

\* Body of the closure, lines 30-34: the diagnostics it writes to std::cerr.
ReplyDiagnostics(cl, reply, reply_size) ==
  IF cl.response_handle = Null THEN 1 ELSE 0

\* Variant: line 40 is missing, the handle is not consumed.
ReplyNextKeepsHandle(cl, reply, reply_size) == cl

\* Body of the closure, lines 30-40: the captured state after the call.
ReplyNext(cl, reply, reply_size) ==
  IF cl.response_handle = Null
  THEN cl
  ELSE [cl EXCEPT !.response_handle = Null]

\* Copy construction of the std::function holding the closure: the captured
\* state is copied as it is at the time of the copy.
CopyOf(cl) ==
  [cl EXCEPT !.calls = 0, !.sends = 0, !.diags = 0]

\* ------------------------------------------------ ForwardToHandler (l.23-48)
\* Variant: the adaptor answers every message itself with an empty reply.
ForwardToHandlerSendsDefault(messenger, message) ==
  <<[messenger |-> messenger, handle |-> message.response_handle,
     reply |-> <<>>, reply_size |-> 0]>>

\* Host calls the adaptor itself makes, outside the reply closure: none.
ForwardToHandlerSends(messenger, message) == <<>>

\* The handlers invoked at lines 46-47, given the handler user_data points at.
ForwardToHandlerCalls(h) == <<h>>

\* The arguments of the invocation at lines 46-47.
Invocation(h, message, m) ==
  [msg |-> m, channel |-> message.channel, handler |-> h,
   message |-> message.message, message_size |-> message.message_size,
   user_data |-> Null, destroyed |-> FALSE]

\* ------------------------------------------- SetMessageHandler (l.90-104)
\* handlers_ after the call.
SetMessageHandlerMap(hs, channel, handler) ==
  IF handler = EmptyHandler
  THEN [hs EXCEPT ![channel] = NoEntry]
  ELSE [hs EXCEPT ![channel] = handler]

\* The registration handed to FlutterDesktopMessengerSetCallback; addr is
\* &handlers_[channel] after the store.
SetMessageHandlerCallback(handler, addr) ==
  IF handler = EmptyHandler
  THEN [callback |-> NoCallback, user_data |-> Null]
  ELSE [callback |-> Adaptor, user_data |-> addr]

FreeAddrs == {a \in Addrs : heap[a] = Freed}

\* What a read through pointer a finds: the object there, or Freed when a is
\* null or dangling.
Deref(a) == IF a \in Addrs THEN heap[a] ELSE Freed

\* The handler object the host's registration for the C-string channel name
\* c leads to, if any.
DispatchTarget(c) ==
  IF hostCb[c].callback = Adaptor THEN Deref(hostCb[c].user_data) ELSE Freed

\* std::map keeps a node where it is until the key is erased; operator[] on a
\* new key allocates a node at some free address.
NodeAddrs(channel) ==
  IF handlers_[channel] # NoEntry THEN {node[channel]} ELSE FreeAddrs

Init ==
  /\ alive = TRUE
  /\ messenger_ \in MessengerRefs
  /\ handlers_ = [c \in Channels |-> NoEntry]
  /\ node = [c \in Channels |-> Null]
  /\ heap = [a \in Addrs |-> Freed]
  /\ hostCb = [c \in HostChannels |->
                 [callback |-> NoCallback, user_data |-> Null]]
  /\ msgs = <<>>
  /\ closures = <<>>
  /\ invocations = <<>>
  /\ returned = NoneReturned
  /\ responseCount = [h \in Handles |-> 0]
  /\ lastResponse = NoResponse
  /\ running = Idle
  /\ crashed = FALSE
  /\ pending = NoPending
  /\ outbox = <<>>
  /\ textures = [id \in TextureIds |-> Unregistered]
  /\ lastRegister = NoRegister
  /\ lastFetch = NoFetch
  /\ retired = {}

\* The handler invocation in progress loses its std::function object when the
\* map entry it was invoked from is erased or assigned over.
RunningAfterStoreOn(channel) ==
  IF /\ running.msg # Null
     /\ handlers_[channel] # NoEntry
     /\ running.user_data = node[channel]
  THEN [running EXCEPT !.destroyed = TRUE]
  ELSE running

SetMessageHandler(channel, handler) ==
  /\ alive /\ ~crashed
  /\ handlers_' = SetMessageHandlerMap(handlers_, channel, handler)
  /\ IF handler = EmptyHandler
     THEN /\ node' = [node EXCEPT ![channel] = Null]
          /\ heap' = [a \in Addrs |->
                       IF a = node[channel] THEN Freed ELSE heap[a]]
          /\ running' = RunningAfterStoreOn(channel)
          /\ hostCb' = [hostCb EXCEPT ![CStr(channel)] =
                          SetMessageHandlerCallback(handler, Null)]
     ELSE \E a \in NodeAddrs(channel) :
            /\ node' = [node EXCEPT ![channel] = a]
            /\ heap' = [heap EXCEPT ![a] = handlers_'[channel]]
            /\ running' = RunningAfterStoreOn(channel)
            /\ hostCb' = [hostCb EXCEPT ![CStr(channel)] =
                            SetMessageHandlerCallback(handler, a)]
  /\ UNCHANGED <<alive, messenger_, msgs, closures, invocations,
                 returned, responseCount, lastResponse, crashed>>
  /\ UNCHANGED <<pending, outbox, textureVars>>

\* The FlutterDesktopMessage the host hands to the callback.
Message(channel, bytes, handle, messenger) ==
  [channel |-> channel, message |-> bytes, message_size |-> Len(bytes),
   response_handle |-> handle, messenger |-> messenger]

RECURSIVE SumLen(_, _)
SumLen(ss, n) == IF n = 0 THEN 0 ELSE Len(ss[n]) + SumLen(ss, n - 1)
NumClosures == SumLen(closures, Len(closures))

RECURSIVE SumCalls(_, _)
SumCalls(cls, n) == IF n = 0 THEN 0 ELSE cls[n].calls + SumCalls(cls, n - 1)
RECURSIVE SumAllCalls(_, _)
SumAllCalls(ss, n) ==
  IF n = 0 THEN 0 ELSE SumCalls(ss[n], Len(ss[n])) + SumAllCalls(ss, n - 1)
ReplyCalls == SumAllCalls(closures, Len(closures))

\* The host's count of send_response calls, per handle used.
RECURSIVE Counted(_, _)
Counted(count, sends) ==
  IF sends = <<>> THEN count
  ELSE Counted([count EXCEPT ![Head(sends).handle] = @ + 1], Tail(sends))

Latest(last, sends) == IF sends = <<>> THEN last ELSE sends[Len(sends)]

ForwardToHandler(message, user_data, h) ==
  LET m == Len(msgs) + 1
      sends == ForwardToHandlerSends(message.messenger, message)
      calls == ForwardToHandlerCalls(h)
  IN /\ msgs' = Append(msgs, [response_handle |-> message.response_handle,
                              messenger |-> message.messenger])
     /\ closures' = Append(closures,
                      <<NewReplyHandler(message.messenger,
                                        message.response_handle)>>)
     /\ invocations' = invocations \o [i \in 1 .. Len(calls) |-> m]
     /\ responseCount' = Counted(responseCount, sends)
     /\ lastResponse' = Latest(lastResponse, sends)
     /\ running' = IF calls = <<>> THEN Idle
                   ELSE [Invocation(calls[Len(calls)], message, m)
                           EXCEPT !.user_data = user_data,
                                  !.destroyed = Deref(user_data) = Freed]
     /\ UNCHANGED <<alive, messenger_, handlers_, node, heap, hostCb,
                    returned, crashed>>

\* The host delivers an inbound message on a channel whose callback is set: it
\* calls ForwardToHandler(messenger, message, user_data).  user_data is
\* dereferenced at line 44; when it points at a freed node the behaviour is
\* undefined: the read may find any handler, or fault.
Deliver(channel, bytes, hasHandle) ==
  /\ UNCHANGED <<pending, outbox, textureVars>>
  /\ ~crashed /\ running = Idle
  /\ Len(msgs) < MaxMsgs /\ NumClosures < MaxClosures
  /\ hostCb[channel].callback = Adaptor
  /\ LET handle == IF hasHandle THEN Len(msgs) + 1 ELSE Null
         message == Message(channel, bytes, handle, messenger_)
         user_data == hostCb[channel].user_data
     IN IF Deref(user_data) # Freed
        THEN ForwardToHandler(message, user_data, Deref(user_data))
        ELSE \/ \E h \in Handlers : ForwardToHandler(message, user_data, h)
             \/ /\ crashed' = TRUE
                /\ UNCHANGED <<alive, messenger_, handlers_, node, heap,
                               hostCb, msgs, closures, invocations,
                               returned, responseCount, lastResponse, running>>

\* The plugin code invokes the i-th reply closure object of message m.
Reply(m, i, reply, reply_size) ==
  /\ ~crashed
  /\ m \in 1 .. Len(closures) /\ i \in 1 .. Len(closures[m])
  /\ ReplyCalls < MaxReplies
  /\ LET cl == closures[m][i]
         sends == ReplySends(cl, reply, reply_size)
         diags == ReplyDiagnostics(cl, reply, reply_size)
     IN /\ closures' = [closures EXCEPT ![m][i] =
                          [ReplyNext(cl, reply, reply_size) EXCEPT
                             !.calls = @ + 1,
                             !.sends = @ + Len(sends),
                             !.diags = @ + diags]]
        /\ responseCount' = Counted(responseCount, sends)
        /\ lastResponse' = Latest(lastResponse, sends)
  /\ UNCHANGED <<alive, messenger_, handlers_, node, heap, hostCb, msgs,
                 invocations, returned, running, crashed>>
  /\ UNCHANGED <<pending, outbox, textureVars>>

\* The plugin code copies the i-th reply closure object of message m.
CopyReply(m, i) ==
  /\ ~crashed
  /\ m \in 1 .. Len(closures) /\ i \in 1 .. Len(closures[m])
  /\ NumClosures < MaxClosures
  /\ closures' = [closures EXCEPT ![m] = Append(@, CopyOf(closures[m][i]))]
  /\ UNCHANGED <<alive, messenger_, handlers_, node, heap, hostCb, msgs,
                 invocations, returned, responseCount, lastResponse, running, crashed>>
  /\ UNCHANGED <<pending, outbox, textureVars>>

\* The handler returns to ForwardToHandler (l.47-48).  Reply closures it
\* moved or copied elsewhere stay callable.
HandlerReturn ==
  /\ ~crashed /\ running.msg # Null
  /\ running' = Idle
  /\ returned' = [channel |-> running.channel, handler |-> running.handler]
  /\ UNCHANGED <<alive, messenger_, handlers_, node, heap, hostCb, msgs,
                 closures, invocations, responseCount, lastResponse, crashed>>
  /\ UNCHANGED <<pending, outbox, textureVars>>

\* A handler whose std::function object was destroyed under it keeps
\* executing freed storage: it may fault at any point.
DestroyedHandlerFault ==
  /\ ~crashed /\ running.msg # Null /\ running.destroyed
  /\ crashed' = TRUE
  /\ UNCHANGED <<alive, messenger_, handlers_, node, heap, hostCb, msgs,
                 closures, invocations, returned, responseCount, lastResponse, running>>
  /\ UNCHANGED <<pending, outbox, textureVars>>

\* ~PluginRegistrar (l.154) destroys messenger_, whose defaulted destructor
\* (l.59) destroys handlers_ and makes no host call.  A handler that is
\* running, and may be the caller, loses its std::function object.  The two
\* statements of SetMessageHandler (l.99-103, l.93-95) make no call-out
\* between them, so the plugin's thread does not reach the destructor there.
Destroy ==
  /\ alive /\ ~crashed /\ pending = NoPending
  /\ alive' = FALSE
  /\ running' = IF running.msg # Null
                THEN [running EXCEPT !.destroyed = TRUE]
                ELSE running
  /\ handlers_' = [c \in Channels |-> NoEntry]
  /\ node' = [c \in Channels |-> Null]
  /\ heap' = [a \in Addrs |-> Freed]
  /\ UNCHANGED <<messenger_, hostCb, msgs, closures, invocations,
                 returned, responseCount, lastResponse, crashed>>
  /\ UNCHANGED <<pending, outbox, textureVars>>

Next ==
  \/ \E c \in Channels, h \in Handlers \cup {EmptyHandler} :
       SetMessageHandler(c, h)
  \/ \E c \in HostChannels, b \in Payloads, hasHandle \in BOOLEAN :
       Deliver(c, b, hasHandle)
  \/ \E m \in 1 .. MaxMsgs, i \in 1 .. MaxClosures, r \in Payloads :
       Reply(m, i, r, Len(r))
  \/ \E m \in 1 .. MaxMsgs, i \in 1 .. MaxClosures : CopyReply(m, i)
  \/ HandlerReturn
  \/ DestroyedHandlerFault
  \/ Destroy

Spec == Init /\ [][Next]_vars

\* One plugin channel whose name has no NUL: the replies, the copies of the
\* reply handler and the destruction of the registrar around one handler.
NextReplies ==
  \/ \E h \in Handlers \cup {EmptyHandler} : SetMessageHandler(ChannelA, h)
  \/ \E c \in {CStr(ChannelA)}, b \in Payloads, hasHandle \in BOOLEAN :
       Deliver(c, b, hasHandle)
  \/ \E m \in 1 .. MaxMsgs, i \in 1 .. MaxClosures, r \in Payloads :
       Reply(m, i, r, Len(r))
  \/ \E m \in 1 .. MaxMsgs, i \in 1 .. MaxClosures : CopyReply(m, i)
  \/ HandlerReturn
  \/ DestroyedHandlerFault
  \/ Destroy

SpecReplies == Init /\ [][NextReplies]_vars

\* Two plugin channels whose names have no NUL, with replies that may be
\* given after the handler returned (what they reply does not matter here:
\* one payload); a handler that cleared or replaced itself may fault.
NextTwoChannels ==
  \/ \E c \in {ChannelA, ChannelB}, h \in Handlers \cup {EmptyHandler} :
       SetMessageHandler(c, h)
  \/ \E c \in {CStr(ChannelA), CStr(ChannelB)}, b \in Payloads,
        hasHandle \in BOOLEAN :
       Deliver(c, b, hasHandle)
  \/ \E m \in 1 .. MaxMsgs, i \in 1 .. MaxClosures :
       Reply(m, i, <<7, 9>>, 2)
  \/ HandlerReturn
  \/ DestroyedHandlerFault

SpecTwoChannels == Init /\ [][NextTwoChannels]_vars

\* ------------------------------------- BinaryMessengerImpl::Send (l.83-88)
\* The FlutterDesktopMessengerSend calls one Send makes (l.86-87).
SendCalls(messenger, channel, message, message_size) ==
  <<[messenger |-> messenger, channel |-> CStr(channel),
     message |-> message, message_size |-> message_size]>>

Send(channel, message, message_size) ==
  /\ alive /\ ~crashed
  /\ outbox' = SendCalls(messenger_, channel, message, message_size)
  /\ UNCHANGED <<alive, messenger_, handlers_, node, heap, hostCb, msgs,
                 closures, invocations, returned, responseCount,
                 lastResponse, running, crashed, pending, textureVars>>

\* The living messenger with outbound sends: the plugin registers and clears
\* handlers and sends, the host delivers and the handlers return, or fault
\* once their own std::function was destroyed under them.
NextSend ==
  \/ \E c \in Channels, b \in Payloads : Send(c, b, Len(b))
  \/ \E c \in Channels, h \in Handlers \cup {EmptyHandler} :
       SetMessageHandler(c, h)
  \/ \E c \in HostChannels, b \in Payloads, hasHandle \in BOOLEAN :
       Deliver(c, b, hasHandle)
  \/ HandlerReturn
  \/ DestroyedHandlerFault

SpecSend == Init /\ [][NextSend]_vars

\* ------------------------- SetMessageHandler statement by statement (l.90-104)
\* Variant: the context is the address of the node next to the one stored.
MessageHandlerPointerOther(nodes, channel) ==
  IF nodes[channel] = 1 THEN 2 ELSE 1

\* l.100: message_handler = &handlers_[channel].
MessageHandlerPointer(nodes, channel) == nodes[channel]

\* l.93-96: after handlers_.erase(channel) the call goes on to
\* FlutterDesktopMessengerSetCallback(messenger_, channel, nullptr, nullptr),
\* whether or not the map held the key.
AfterErase(hs, channel) ==
  [active |-> TRUE, channel |-> channel, handler |-> EmptyHandler,
   message_handler |-> Null]

\* The map update of SetMessageHandler: l.93 (erase) for an empty handler,
\* l.99-100 (move-assign, take the node's address) otherwise.
UpdateMap(channel, handler) ==
  /\ alive /\ ~crashed /\ pending = NoPending
  /\ handlers_' = SetMessageHandlerMap(handlers_, channel, handler)
  /\ running' = RunningAfterStoreOn(channel)
  /\ IF handler = EmptyHandler
     THEN /\ node' = [node EXCEPT ![channel] = Null]
          /\ heap' = [a \in Addrs |->
                       IF a = node[channel] THEN Freed ELSE heap[a]]
          /\ pending' = AfterErase(handlers_, channel)
     ELSE \E a \in NodeAddrs(channel) :
            /\ node' = [node EXCEPT ![channel] = a]
            /\ heap' = [heap EXCEPT ![a] = handlers_'[channel]]
            /\ pending' = [active |-> TRUE, channel |-> channel,
                           handler |-> handler,
                           message_handler |->
                             MessageHandlerPointer(node', channel)]
  /\ UNCHANGED <<alive, messenger_, hostCb, msgs, closures, invocations,
                 returned, responseCount, lastResponse, crashed, outbox,
                 textureVars>>

\* The host call of SetMessageHandler: l.94-95 for an empty handler,
\* l.102-103 otherwise.  The call returns after it.
SetCallback ==
  /\ ~crashed /\ pending.active
  /\ hostCb' = [hostCb EXCEPT ![CStr(pending.channel)] =
                  SetMessageHandlerCallback(pending.handler,
                                            pending.message_handler)]
  /\ pending' = NoPending
  /\ UNCHANGED <<alive, messenger_, handlers_, node, heap, msgs, closures,
                 invocations, returned, responseCount, lastResponse,
                 running, crashed, outbox, textureVars>>

\* The messenger with SetMessageHandler taken statement by statement: the
\* host delivers on its own thread, so a delivery can fall between the map
\* update and the host call; a handler whose std::function was erased or
\* assigned over while it runs may fault.
NextSteps ==
  \/ \E c \in Channels, h \in Handlers \cup {EmptyHandler} : UpdateMap(c, h)
  \/ SetCallback
  \/ \E c \in HostChannels, b \in Payloads, hasHandle \in BOOLEAN :
       Deliver(c, b, hasHandle)
  \/ HandlerReturn
  \/ DestroyedHandlerFault

SpecSteps == Init /\ [][NextSteps]_vars

\* --------------------------------------- TextureRegistrarImpl (l.108-142)
\* The host's texture registrar (FlutterDesktopRegisterExternalTexture and
\* its companions) is the environment.  It keeps, per id, the user_data of
\* the registration; it answers a registration with a free id of its choice
\* or, when it rejects the registration, with InvalidTextureId; an id that
\* was unregistered is free again.
HostTextureIds ==
  {id \in TextureIds : textures[id].user_data = NoTexture}
    \cup {InvalidTextureId}

\* l.125-127: RegisterTexture returns the host's id as it is.
RegisterTextureReturn(texture_id) == texture_id

\* Variant: the callback passes height for width and width for height.
TextureCallbackSwapped(user_data, width, height) ==
  <<[texture |-> user_data, width |-> height, height |-> width]>>

\* l.121-124: the callback given to the host casts user_data to the Texture
\* and calls its CopyPixelBuffer(width, height).
TextureCallback(user_data, width, height) ==
  <<[texture |-> user_data, width |-> width, height |-> height]>>

RegisterTexture(texture) ==
  /\ alive
  /\ \E id \in HostTextureIds :
       /\ textures' = IF id \in TextureIds
                      THEN [textures EXCEPT ![id] =
                              [user_data |-> texture, frame |-> FALSE]]
                      ELSE textures
       /\ lastRegister' = [texture |-> texture,
                           texture_id |-> RegisterTextureReturn(id)]
  /\ UNCHANGED <<messengerVars, lastFetch, retired>>

\* l.130-133: passed on to the host, which ignores an id it does not hold.
MarkTextureFrameAvailable(texture_id) ==
  /\ alive
  /\ textures' = IF texture_id \in TextureIds
                    /\ textures[texture_id].user_data # NoTexture
                 THEN [textures EXCEPT ![texture_id].frame = TRUE]
                 ELSE textures
  /\ UNCHANGED <<messengerVars, lastRegister, lastFetch, retired>>

\* l.135-137: passed on to the host, which drops the registration.
UnregisterTexture(texture_id) ==
  /\ alive
  /\ textures' = IF texture_id \in TextureIds
                 THEN [textures EXCEPT ![texture_id] = Unregistered]
                 ELSE textures
  /\ retired' = IF texture_id \in TextureIds
                   /\ textures[texture_id].user_data # NoTexture
                THEN retired \cup
                       {<<texture_id, textures[texture_id].user_data>>}
                ELSE retired
  /\ UNCHANGED <<messengerVars, lastRegister, lastFetch>>

\* The host's compositor asks for the pixels of texture_id: it invokes the
\* callback registered under that id, if it holds one, with the user_data
\* registered with it.
PixelFetch(texture_id, width, height) ==
  /\ lastFetch' =
       [texture_id |-> texture_id,
        copies |-> IF textures[texture_id].user_data = NoTexture THEN <<>>
                   ELSE TextureCallback(textures[texture_id].user_data,
                                        width, height)]
  /\ textures' = [textures EXCEPT ![texture_id].frame = FALSE]
  /\ UNCHANGED <<messengerVars, lastRegister, retired>>

NextTextures ==
  \/ \E t \in Textures : RegisterTexture(t)
  \/ \E id \in TextureIds \cup {InvalidTextureId} :
       MarkTextureFrameAvailable(id)
  \/ \E id \in TextureIds \cup {InvalidTextureId} : UnregisterTexture(id)
  \/ \E id \in TextureIds, w \in Sizes, h \in Sizes : PixelFetch(id, w, h)

SpecTextures == Init /\ [][NextTextures]_vars

\* ------------------------------------------------------------------ claims
MsgIds == 1 .. Len(msgs)

\* C1: for every inbound message, at most one send_response call is ever made
\* on its response handle, whichever reply closure objects (the original or
\* copies the handler made) are invoked, and however often.
AtMostOneResponsePerHandle ==
  \A h \in Handles : h # Null => responseCount[h] <= 1

\* C2: invoking the reply closure ForwardToHandler built for a message with a
\* non-null response handle sends to the host on its first call only; the
\* second call makes no host call and writes exactly one diagnostic.
DoubleReplySendsOnce ==
  \A m \in MsgIds :
    msgs[m].response_handle # Null =>
      LET cl == closures[m][1]
      IN /\ cl.calls = 0 => cl.sends = 0 /\ cl.diags = 0
         /\ cl.calls = 1 => cl.sends = 1 /\ cl.diags = 0
         /\ cl.calls = 2 => cl.sends = 1 /\ cl.diags = 1
         /\ cl.calls >= 1 => cl.sends = 1 /\ cl.diags = cl.calls - 1

\* A reply closure of a message with a handle has been invoked twice.
DoubleReplyHappened ==
  \E m \in MsgIds :
    /\ msgs[m].response_handle # Null
    /\ closures[m][1].calls = 2
    /\ ~crashed

\* C3: once SetMessageHandler(c, h) has stored the non-empty handler h for
\* channel c, every inbound message the host delivers on c invokes h exactly
\* once, with that message's bytes and length and a reply closure bound to
\* that message's response handle.
DeliverInvokesStoredHandler ==
  [][\A c \in Channels, b \in Payloads, hasHandle \in BOOLEAN :
       (Deliver(CStr(c), b, hasHandle) /\ handlers_[c] # NoEntry) =>
         LET m == Len(msgs) + 1
         IN /\ invocations' = Append(invocations, m)
            /\ running'.msg = m
            /\ running'.channel = CStr(c)
            /\ running'.handler = handlers_[c]
            /\ running'.message = b
            /\ running'.message_size = Len(b)
            /\ Len(closures') = m
            /\ Len(closures'[m]) = 1
            /\ closures'[m][1].calls = 0
            /\ closures'[m][1].response_handle =
                 (IF hasHandle THEN m ELSE Null)
            /\ msgs'[m].response_handle = closures'[m][1].response_handle]_vars

\* C4: SetMessageHandler(c, h2) on a channel that already has a handler
\* replaces it: from then on the handler the host's registration for c leads
\* to is h2, it changes only through a later SetMessageHandler on c (or the
\* messenger's destruction), and every delivery on c invokes it.
ReplacedHandlerIsInvoked ==
  [][
      /\ \A c \in Channels, h2 \in Handlers :
          (SetMessageHandler(c, h2) /\ handlers_[c] # NoEntry) =>
            /\ handlers_'[c] = h2
            /\ DispatchTarget(CStr(c))' = h2
            /\ \A a \in Addrs : heap'[a] = heap[a] \/ a = node[c]
      /\ \A c \in HostChannels :
          (DispatchTarget(c)' # DispatchTarget(c)) =>
            \/ \E h \in Handlers \cup {EmptyHandler} : SetMessageHandler(c, h)
            \/ Destroy
      /\ \A c \in Channels :
          ((\E b \in Payloads, hasHandle \in BOOLEAN :
              Deliver(CStr(c), b, hasHandle))
             /\ handlers_[c] # NoEntry) =>
            running'.handler = handlers_[c]]_vars

\* C5: SetMessageHandler(c, empty) leaves channel c with no stored handler
\* and the host callback for c unset (null callback, null context); no
\* handler is invoked for a message on a channel whose callback is unset, and
\* the callback stays unset until SetMessageHandler(c, non-empty).
ClearedChannelIsDeregistered ==
  [][
      /\ \A c \in Channels :
          SetMessageHandler(c, EmptyHandler) =>
            /\ handlers_'[c] = NoEntry
            /\ node'[c] = Null
            /\ hostCb'[CStr(c)] = [callback |-> NoCallback, user_data |-> Null]
      /\ \A c \in HostChannels :
          (/\ hostCb[c].callback = NoCallback
           /\ hostCb'[c].callback # NoCallback)
            => \E h \in Handlers : SetMessageHandler(c, h)
      /\ (invocations' # invocations) =>
            /\ running'.msg = Len(msgs) + 1
            /\ hostCb[running'.channel].callback = Adaptor
     ]_vars

\* C6: while the messenger exists, for every channel whose host registration
\* is the adaptor, the context pointer the host holds is the address of the
\* map node that stores the channel's handler, and that node holds the
\* handler stored for the channel; SetMessageHandler on another channel
\* neither moves that node nor changes what it holds.
ContextIsStoredHandlerAddress ==
  [][
      /\ alive' =>
           \A c \in Channels :
             (handlers_'[c] # NoEntry /\ hostCb'[CStr(c)].callback = Adaptor) =>
               /\ node'[c] \in Addrs
               /\ hostCb'[CStr(c)].user_data = node'[c]
               /\ heap'[node'[c]] = handlers_'[c]
               /\ \A d \in Channels \ {c} : node'[d] # node'[c]
      /\ \A c \in Channels, h \in Handlers \cup {EmptyHandler} :
           SetMessageHandler(c, h) =>
             \A d \in Channels \ {c} :
               /\ node'[d] = node[d]
               /\ handlers_'[d] = handlers_[d]
               /\ node[d] # Null => heap'[node[d]] = heap[node[d]]
     ]_vars

\* C7: in every reachable state, also after the PluginRegistrar and its
\* BinaryMessengerImpl are destroyed, the host holds an adaptor registration
\* for a channel only if a live stored handler exists at the registered
\* context address (the "only if" half of the claim; the names the host
\* knows are the channels here, so that names with a NUL play no part).
RegistrationIffLiveHandler ==
  \A c \in HostChannels :
    hostCb[c].callback = Adaptor =>
      (alive /\ Deref(hostCb[c].user_data) # Freed)

\* C8: the first invocation of the reply closure built for a message with a
\* non-null response handle makes exactly one send_response call, with the
\* reply bytes and length given, on that message's response handle and the
\* transport the message arrived on; whether the handler is still running
\* or has returned, and whatever SetMessageHandler did in between.
FirstReplyIsSent ==
  [][\A m \in MsgIds, r \in Payloads, n \in {Len(p) : p \in Payloads} :
       (/\ Reply(m, 1, r, n)
        /\ msgs[m].response_handle # Null
        /\ closures[m][1].calls = 0) =>
         /\ lastResponse' = [messenger |-> msgs[m].messenger,
                             handle |-> msgs[m].response_handle,
                             reply |-> r, reply_size |-> n]
         /\ responseCount' =
              [responseCount EXCEPT ![msgs[m].response_handle] = @ + 1]
         /\ closures'[m][1].sends = 1]_vars

\* A handler replied while it was running, after its own channel had been
\* cleared; the host got the reply bytes.
RepliedInsideInvocation ==
  /\ running.msg # Null /\ ~crashed
  /\ closures[running.msg][1].sends = 1
  /\ handlers_[running.channel] = NoEntry
  /\ lastResponse.handle = running.msg
  /\ lastResponse.reply = <<7, 9>>

\* C9: ForwardToHandler itself never sends a reply: a delivery and a
\* handler's return leave the host's send_response record unchanged, and a
\* message none of whose reply closures was invoked has no response.
AdaptorSendsNothing ==
  [][
      /\ (\E c \in HostChannels, b \in Payloads, hasHandle \in BOOLEAN :
            Deliver(c, b, hasHandle)) =>
           UNCHANGED <<responseCount, lastResponse>>
      /\ HandlerReturn => UNCHANGED <<responseCount, lastResponse>>
      /\ \A m \in 1 .. Len(msgs') :
           (\A i \in 1 .. Len(closures'[m]) : closures'[m][i].calls = 0) =>
             /\ responseCount'[m] = 0
             /\ lastResponse'.handle # m
      /\ responseCount'[Null] = 0
     ]_vars

\* A handler returned without replying and nothing was sent for its message.
ReturnedWithoutReply ==
  \E m \in MsgIds :
    /\ msgs[m].response_handle = m
    /\ running = Idle /\ ~crashed
    /\ \A i \in 1 .. Len(closures[m]) : closures[m][i].calls = 0
    /\ responseCount[m] = 0

\* C10: a reply closure built for a message whose response handle is null
\* never calls the host; every invocation of it writes one diagnostic.
NullHandleNeverSends ==
  /\ responseCount[Null] = 0
  /\ \A m \in MsgIds :
       msgs[m].response_handle = Null =>
         /\ responseCount[m] = 0
         /\ \A i \in 1 .. Len(closures[m]) :
              /\ closures[m][i].sends = 0
              /\ closures[m][i].diags = closures[m][i].calls

\* The reply closure of a message without response handle was invoked twice.
NullHandleReplied ==
  \E m \in MsgIds :
    /\ msgs[m].response_handle = Null
    /\ closures[m][1].calls = 2
    /\ closures[m][1].diags = 2
    /\ ~crashed

\* C11: Send(channel, bytes, length) makes exactly one
\* FlutterDesktopMessengerSend call, with the messenger's transport and the
\* same channel, bytes and length, whatever handlers are registered, and
\* leaves the handler map and the host's callback registrations as they
\* were; the handler map is changed by SetMessageHandler only, never by
\* Send, an inbound dispatch or a handler's return.
SendMakesOneHostCall ==
  [][
     /\ \A c \in Channels, b \in Payloads :
          Send(c, b, Len(b)) =>
            /\ outbox' = <<[messenger |-> messenger_, channel |-> c,
                            message |-> b, message_size |-> Len(b)]>>
            /\ UNCHANGED <<handlers_, node, heap, hostCb>>
     /\ handlers_' # handlers_ =>
          \E c \in Channels, h \in Handlers \cup {EmptyHandler} :
            SetMessageHandler(c, h)
     /\ (\/ msgs' # msgs                  \* an inbound dispatch
         \/ returned' # returned          \* a handler's return
         \/ outbox' # outbox)             \* a send
        => UNCHANGED <<handlers_, node, heap>>
    ]_vars

\* C12: SetMessageHandler(c, empty) on a channel without stored handler is
\* not an error: the erase leaves the handler map as it was, the call still
\* goes on to ask the host to unset c's callback, and that host call leaves
\* c without callback and the registration of every other channel alone, so
\* a channel already cleared is in the same state after the second clear.
ClearOfAbsentChannelIsIdempotent ==
  [][
     \A c \in Channels :
       /\ (UpdateMap(c, EmptyHandler) /\ handlers_[c] = NoEntry) =>
            /\ UNCHANGED <<handlers_, node, heap, hostCb, crashed>>
            /\ pending' = [active |-> TRUE, channel |-> c,
                           handler |-> EmptyHandler, message_handler |-> Null]
       /\ (SetCallback /\ pending.channel = c
                       /\ pending.handler = EmptyHandler) =>
            /\ hostCb'[CStr(c)] = [callback |-> NoCallback, user_data |-> Null]
            /\ \A d \in Channels \ {c} :
                 handlers_[d] # NoEntry => hostCb'[CStr(d)] = hostCb[CStr(d)]
            /\ hostCb[CStr(c)].callback = NoCallback => hostCb' = hostCb
            /\ UNCHANGED <<handlers_, node, heap, crashed>>
            /\ ~pending'.active
    ]_vars

\* C13 as stated: RegisterTexture(t) returns a non-negative identifier;
\* once UnregisterTexture(id) has returned for the id t was registered
\* under, no pixel-fetch request for id invokes t's CopyPixelBuffer; and
\* while id is registered every pixel-fetch request for id invokes
\* CopyPixelBuffer on exactly the texture registered under id, with the
\* requested width and height.
RegisteredIdIsNonNegative ==
  [][
     /\ \A t \in Textures :
          RegisterTexture(t) => lastRegister'.texture_id >= 0
     /\ \A id \in TextureIds, w \in Sizes, h \in Sizes :
          PixelFetch(id, w, h) =>
            /\ \A t \in Textures :
                 <<id, t>> \in retired =>
                   \A k \in 1 .. Len(lastFetch'.copies) :
                     lastFetch'.copies[k].texture # t
            /\ textures[id].user_data # NoTexture =>
                 lastFetch'.copies =
                   <<[texture |-> textures[id].user_data,
                      width |-> w, height |-> h]>>
    ]_vars

\* C13, amended: RegisterTexture(t) returns the host's answer as it is: a
\* free id under which the host now holds t, or the host's invalid id, with
\* nothing registered; after UnregisterTexture(id) the host holds nothing
\* under id, and a pixel-fetch request for an id the host holds nothing
\* under invokes no CopyPixelBuffer at all; a pixel-fetch request for a
\* registered id invokes CopyPixelBuffer exactly once, on the texture
\* registered under id, with the requested width and height.
RegisteredIdIsTheHosts ==
  [][
     /\ \A t \in Textures :
          RegisterTexture(t) =>
            LET id == lastRegister'.texture_id
            IN /\ lastRegister'.texture = t
               /\ \/ /\ id \in TextureIds
                     /\ textures[id].user_data = NoTexture
                     /\ textures'[id].user_data = t
                     /\ \A d \in TextureIds \ {id} : textures'[d] = textures[d]
                  \/ /\ id = InvalidTextureId
                     /\ textures' = textures
     /\ \A id \in TextureIds :
          UnregisterTexture(id) =>
            /\ textures'[id].user_data = NoTexture
            /\ \A d \in TextureIds \ {id} : textures'[d] = textures[d]
     /\ \A id \in TextureIds, w \in Sizes, h \in Sizes :
          PixelFetch(id, w, h) =>
            lastFetch'.copies =
              IF textures[id].user_data = NoTexture THEN <<>>
              ELSE <<[texture |-> textures[id].user_data,
                      width |-> w, height |-> h]>>
    ]_vars

\* Texture t1 was unregistered from id 0, the host gave id 0 to t2, a
\* pixel-fetch request for id 0 with width 1 and height 2 reached t2, and a
\* later registration of t1 was rejected by the host.
ReusedIdFetchedAndRejected ==
  /\ <<0, "t1">> \in retired
  /\ textures[0].user_data = "t2"
  /\ lastFetch = [texture_id |-> 0,
                  copies |-> <<[texture |-> "t2", width |-> 1, height |-> 2]>>]
  /\ lastRegister = [texture |-> "t1", texture_id |-> InvalidTextureId]

\* A SetMessageHandler call with a non-empty handler has stored the handler
\* and not yet made its host call: the handler is in the map, at the address
\* the call will register, and a registration the host already holds under
\* the channel's name leads to a handler that is stored.
StoredWhilePending ==
  (pending.active /\ pending.handler # EmptyHandler) =>
    LET c == pending.channel
    IN /\ handlers_[c] = pending.handler
       /\ node[c] = pending.message_handler
       /\ Deref(node[c]) = pending.handler
       /\ hostCb[CStr(c)].callback = Adaptor =>
            \E k \in Channels :
              /\ CStr(k) = CStr(c)
              /\ handlers_[k] # NoEntry
              /\ hostCb[CStr(c)].user_data = node[k]
              /\ DispatchTarget(CStr(c)) = handlers_[k]

\* C14: SetMessageHandler with a non-empty handler stores the handler in the
\* map before it registers the adaptor with the host: after the store, and
\* until the host call, the host holds no adaptor registration under the
\* channel's name whose context is not the address of a stored handler, and
\* the host call registers the adaptor with the address of the handler
\* stored by then, for a first registration and for a replacement alike.
StoredBeforeRegistered ==
  [][
     /\ StoredWhilePending'
     /\ \A c \in Channels, h \in Handlers :
          /\ UpdateMap(c, h) =>
               /\ handlers_'[c] = h
               /\ hostCb' = hostCb
               /\ pending'.active /\ pending'.handler = h
          /\ (SetCallback /\ pending.channel = c /\ pending.handler = h) =>
               /\ handlers_[c] = h
               /\ Deref(node[c]) = h
               /\ hostCb'[CStr(c)] =
                    [callback |-> Adaptor, user_data |-> node[c]]
               /\ DispatchTarget(CStr(c))' = h
    ]_vars

\* Handler h1 of channel a has run and returned, h2 has been stored over it
\* and the host call of that replacement is still to come.
ReplacementStoredNotYetRegistered ==
  /\ pending.active /\ pending.channel = ChannelA /\ pending.handler = "h2"
  /\ returned = [channel |-> CStr(ChannelA), handler |-> "h1"]
  /\ hostCb[CStr(ChannelA)].callback = Adaptor
  /\ hostCb[CStr(ChannelA)].user_data = node[ChannelA]
  /\ handlers_[ChannelA] = "h2"
  /\ ~crashed

\* C15: at every step of SetMessageHandler, between its statements as well
\* as on its completion, every name under which the host holds the adaptor
\* has a live stored handler at the registered context address, so that a
\* message the host delivers while a clear is in progress does not reach an
\* erased handler.
RegisteredContextIsLiveAtEveryStep ==
  alive =>
    \A c \in HostChannels :
      hostCb[c].callback = Adaptor =>
        /\ Deref(hostCb[c].user_data) # Freed
        /\ \E k \in Channels :
             /\ CStr(k) = c
             /\ hostCb[c].user_data = node[k]

\* C16: a handler that ForwardToHandler is invoking stays alive until its
\* invocation returns, also when SetMessageHandler is called on its channel
\* from inside the invocation, to clear it or to replace it.
RunningHandlerStaysAlive ==
  (alive /\ running.msg # Null) => ~running.destroyed

\* C17: channels are isolated: SetMessageHandler(c, x), x empty or not,
\* leaves the stored handler, the host registration and the dispatch target
\* of every other channel as they were; a message delivered on a channel
\* with a stored handler invokes that handler for that channel, once, and
\* not the different handler stored for another channel.
ChannelsAreIsolated ==
  [][
     /\ \A c \in Channels, x \in Handlers \cup {EmptyHandler} :
          SetMessageHandler(c, x) =>
            \A d \in Channels \ {c} :
              /\ handlers_'[d] = handlers_[d]
              /\ handlers_[d] # NoEntry =>
                   /\ hostCb'[CStr(d)] = hostCb[CStr(d)]
                   /\ DispatchTarget(CStr(d))' = DispatchTarget(CStr(d))
     /\ \A c \in Channels, b \in Payloads, hh \in BOOLEAN :
          (Deliver(CStr(c), b, hh) /\ handlers_[c] # NoEntry) =>
            /\ running'.channel = CStr(c)
            /\ running'.handler = handlers_[c]
            /\ invocations' = Append(invocations, Len(msgs) + 1)
            /\ \A d \in Channels \ {c} :
                 handlers_[d] # handlers_[c] => running'.handler # handlers_[d]
    ]_vars

\* C18: the reply closures of different inbound messages are independent:
\* every dispatch builds a fresh closure bound to the handle of its own
\* message and leaves the closures of earlier messages as they are; an
\* invocation of a closure of message m, first or repeated, changes neither
\* the closures nor the host's response count of any other message, and
\* sends, if it sends, on m's handle; and the first invocation of the
\* closure built for m sends on m's handle whatever has been replied to
\* other messages before, so deferred replies can be given in any order.
RepliesAreIndependent ==
  [][
     /\ Len(msgs') = Len(msgs) + 1 =>
          LET n == Len(msgs')
          IN /\ closures'[n] = <<[messenger |-> msgs'[n].messenger,
                                  response_handle |-> msgs'[n].response_handle,
                                  calls |-> 0, sends |-> 0, diags |-> 0]>>
             /\ \A k \in MsgIds : closures'[k] = closures[k]
     /\ \A m \in MsgIds :
          \* a closure of message m was invoked
          (\E i \in 1 .. Len(closures[m]) :
             /\ Len(closures'[m]) = Len(closures[m])
             /\ closures'[m][i].calls = closures[m][i].calls + 1) =>
            /\ \A k \in MsgIds \ {m} :
                 /\ closures'[k] = closures[k]
                 /\ responseCount'[k] = responseCount[k]
            /\ \A i \in 1 .. Len(closures[m]) :
                 closures[m][i].response_handle
                   \in {Null, msgs[m].response_handle}
            /\ responseCount'[m] # responseCount[m] =>
                 /\ lastResponse'.handle = m
                 /\ msgs[m].response_handle = m
            /\ (/\ closures[m][1].calls = 0 /\ closures'[m][1].calls = 1
                /\ msgs[m].response_handle # Null) =>
                 /\ responseCount'[m] = responseCount[m] + 1
                 /\ lastResponse'.handle = m
                 /\ lastResponse'.messenger = msgs[m].messenger
     /\ \A k \in MsgIds :
          responseCount'[k] # responseCount[k] => closures'[k] # closures[k]
    ]_vars

\* Two messages were dispatched and their replies deferred; the second was
\* answered first, then the first: each got exactly one response.
DeferredRepliesGivenInReverseOrder ==
  /\ Len(msgs) = 2 /\ running = Idle /\ ~crashed
  /\ msgs[1].response_handle = 1 /\ msgs[2].response_handle = 2
  /\ closures[1][1].calls = 1 /\ closures[2][1].calls = 1
  /\ responseCount[1] = 1 /\ responseCount[2] = 1
  /\ lastResponse.handle = 1 /\ lastResponse.reply = <<7, 9>>
====
